---- MODULE Spec2Model ----
(***************************************************************************)
(* tlcontext: typed ambient contexts.  For every payload type T there is   *)
(* one process-wide pointer (global_top_ptr<T>) and one pointer per thread *)
(* (local_top_ptr<T>).  A guard<T, TLocal> holds a payload and the pointer *)
(* its slot held before it was installed; its constructor pushes, its      *)
(* destructor pops.  helper<T>::get_local / get_global / get_top read the  *)
(* slots.  The library is compiled with TLCONTEXT_DEBUG, as tlcontext.cpp  *)
(* does.                                                                   *)
(*                                                                         *)
(* Guards are objects with automatic storage: the guard a thread declares  *)
(* at nesting depth d lives at the address <<thread, d>> of that thread's  *)
(* stack, and the address is reused by the next guard declared at that     *)
(* depth.  Scopes are well nested on each thread: a thread destroys its     *)
(* innermost guard first, whether the block ends, returns or throws.       *)
(*                                                                         *)
(* The library does not lock the process-wide slot.  Under Spec the        *)
(* callers serialize its writers (SingleWriter): the global guards of one  *)
(* type alive at a time are all installed by one thread.                   *)
(*                                                                         *)
(* SpecRace drops that discipline: two threads install and remove global   *)
(* guards of one type with the constructor's read and write of the slot as *)
(* separate steps.  SpecMisuse keeps one thread and lets it destroy guards *)
(* in any order, as a guard whose lifetime is managed by hand can be.      *)
(***************************************************************************)
EXTENDS Integers, Sequences, FiniteSets, TLC

\* Most guards alive in the process at one time.
MaxGuards == 2

\* Payload values are 1..MaxPayload.
MaxPayload == 2

Threads == {"main", "worker"}

\* int_ctx_data and pmr_context_data of tlcontext.cpp.
Types == {"int_ctx_data", "pmr_context_data"}

Payloads == 1..MaxPayload

Depths == 1..MaxGuards

Addrs == Threads \X Depths

nullptr == <<"null", 0>>

Ptrs == Addrs \cup {nullptr}

\* tlcontext.cpp defines TLCONTEXT_DEBUG before including the header.
TLCONTEXT_DEBUG == TRUE

VARIABLES
    global_top_ptr,   \* [Types -> Ptrs]              impl::global_top_ptr<T>
    local_top_ptr,    \* [Threads -> [Types -> Ptrs]] impl::local_top_ptr<T>
    mem,              \* [Addrs -> guard object, or NoGuard where none lives]
    unwind,           \* [Threads -> the scope exit in progress on the thread]
    halted,           \* "" while the process runs, else what stopped it
    last,             \* the operation performed by the latest step
    before,           \* history: what held when the guard at an address was installed
    ctor              \* [Threads -> the guard whose constructor the thread is in]

vars == <<global_top_ptr, local_top_ptr, mem, unwind, halted, last, before, ctor>>

----------------------------------------------------------------------------
\* Storage and control state

\* No guard object lives at the address.
NoGuard == [T |-> "none", TLocal |-> FALSE, _data |-> 0, _prev |-> nullptr]

alive(a) == mem[a] # NoGuard

owner(a) == a[1]

\* Depth of the innermost guard alive on thread t (0: none).
Top(t) ==
    LET ds == {d \in Depths : alive(<<t, d>>)}
    IN  IF ds = {} THEN 0 ELSE CHOOSE d \in ds : \A e \in ds : e <= d

NoUnwind == [to |-> -1, why |-> "none"]

Running(t) == halted = "" /\ unwind[t] = NoUnwind /\ ctor[t] = nullptr

Unwinding(t) == halted = "" /\ unwind[t] # NoUnwind

\* The latest step: op names the operation, t its thread, T the payload type,
\* ref the guard it installed, destroyed or returned a reference into, and
\* res the payload installed or returned (where there is one).
Event(op, t, ty, ref, res) == [op |-> op, t |-> t, T |-> ty, ref |-> ref, res |-> res]

Alive == {a \in Addrs : alive(a)}

----------------------------------------------------------------------------
\* Accessors

\* The call returned a reference to the payload at ref, which holds v.
Returned(ref, v) == [msg |-> "", ref |-> ref, value |-> v]

\* The call did not return: the process stopped with diagnostic m.
Aborted(m) == [msg |-> m, ref |-> nullptr, value |-> 0]

\* abort_if that never aborts: the assertion is compiled out.
abort_if_never(predicate, msg) == ""

\* abort_if: nothing when the predicate is false, else the diagnostic with
\* which the process aborts.
abort_if(predicate, msg) == IF ~predicate THEN "" ELSE msg

\* *ptr for a T*: the payload of the live guard of type T at ptr.  Through a
\* null or dangling pointer the read is undefined: any value, or a crash.
Deref(ty, ptr) ==
    IF ptr # nullptr /\ alive(ptr) /\ mem[ptr].T = ty
    THEN {Returned(ptr, mem[ptr]._data)}
    ELSE {Returned(ptr, v) : v \in Payloads} \cup {Aborted("crash")}

get_local_result(t, ty) ==
    LET ptr == local_top_ptr[t][ty]
        fatal == IF TLCONTEXT_DEBUG
                 THEN abort_if(ptr = nullptr, "tried using inactive local context")
                 ELSE ""
    IN  IF fatal # "" THEN {Aborted(fatal)} ELSE Deref(ty, ptr)

\* get_global reading the calling thread's slot instead of the process-wide one.
get_global_thread_slot(t, ty) ==
    LET ptr == local_top_ptr[t][ty]
        fatal == abort_if(ptr = nullptr, "tried using inactive global context")
    IN  IF fatal # "" THEN {Aborted(fatal)} ELSE Deref(ty, ptr)

get_global_result(t, ty) ==
    LET ptr == global_top_ptr[ty]
        fatal == IF TLCONTEXT_DEBUG
                 THEN abort_if(ptr = nullptr, "tried using inactive global context")
                 ELSE ""
    IN  IF fatal # "" THEN {Aborted(fatal)} ELSE Deref(ty, ptr)

\* get_top with the two slots consulted in the wrong order.
get_top_global_first(t, ty) ==
    LET local_ptr == local_top_ptr[t][ty]
        global_ptr == global_top_ptr[ty]
        fatal == abort_if(local_ptr = nullptr, "no available context")
    IN  IF global_ptr # nullptr THEN Deref(ty, global_ptr)
        ELSE IF fatal # "" THEN {Aborted(fatal)}
        ELSE Deref(ty, local_ptr)

get_top_result(t, ty) ==
    LET local_ptr == local_top_ptr[t][ty]
        global_ptr == global_top_ptr[ty]
        fatal == IF TLCONTEXT_DEBUG
                 THEN abort_if(global_ptr = nullptr, "no available context")
                 ELSE ""
    IN  IF local_ptr # nullptr THEN Deref(ty, local_ptr)
        ELSE IF fatal # "" THEN {Aborted(fatal)}
        ELSE Deref(ty, global_ptr)

\* What the three accessors give on thread t for type ty in this state.
Observe(t, ty) ==
    <<get_local_result(t, ty), get_global_result(t, ty), get_top_result(t, ty)>>

\* An accessor call that caches what it found: a returning call leaves the
\* thread's local slot pointing at the guard whose payload it returned.
Access_caching(op, t, ty, o) ==
    /\ Running(t)
    /\ halted' = o.msg
    /\ last' = Event(op, t, ty, o.ref, o.value)
    /\ local_top_ptr' = IF o.msg = "" THEN [local_top_ptr EXCEPT ![t][ty] = o.ref]
                                     ELSE local_top_ptr
    /\ UNCHANGED <<global_top_ptr, mem, unwind, before, ctor>>

\* An accessor call: it returns o.value, or the process stops with o.msg.
Access(op, t, ty, o) ==
    /\ Running(t)
    /\ halted' = o.msg
    /\ last' = Event(op, t, ty, o.ref, o.value)
    /\ UNCHANGED <<global_top_ptr, local_top_ptr, mem, unwind, before, ctor>>

get_local(t, ty) == \E o \in get_local_result(t, ty) : Access("get_local", t, ty, o)

get_global(t, ty) == \E o \in get_global_result(t, ty) : Access("get_global", t, ty, o)

get_top(t, ty) == \E o \in get_top_result(t, ty) : Access("get_top", t, ty, o)

----------------------------------------------------------------------------
\* Guards

\* The constructor with ptr_ref a copy of the slot (T* for T*&): the slot
\* itself is never written.
guard_ctor_by_value(a, ty, TLocal, v) ==
    LET t == owner(a)
        ptr_ref == IF TLocal THEN local_top_ptr[t][ty] ELSE global_top_ptr[ty]
    IN  /\ mem' = [mem EXCEPT ![a] =
                      [T |-> ty, TLocal |-> TLocal, _data |-> v, _prev |-> ptr_ref]]
        /\ UNCHANGED <<global_top_ptr, local_top_ptr>>

\* The constructor writing both slots of the type, whatever TLocal is.
guard_ctor_both_slots(a, ty, TLocal, v) ==
    LET t == owner(a)
        ptr_ref == IF TLocal THEN local_top_ptr[t][ty] ELSE global_top_ptr[ty]
    IN  /\ mem' = [mem EXCEPT ![a] =
                      [T |-> ty, TLocal |-> TLocal, _data |-> v, _prev |-> ptr_ref]]
        /\ local_top_ptr' = [local_top_ptr EXCEPT ![t][ty] = a]
        /\ global_top_ptr' = [global_top_ptr EXCEPT ![ty] = a]

\* The constructor with local_top_ptr not thread_local: one slot for all
\* threads.
guard_ctor_shared_local(a, ty, TLocal, v) ==
    LET t == owner(a)
        ptr_ref == IF TLocal THEN local_top_ptr[t][ty] ELSE global_top_ptr[ty]
    IN  /\ mem' = [mem EXCEPT ![a] =
                      [T |-> ty, TLocal |-> TLocal, _data |-> v, _prev |-> ptr_ref]]
        /\ IF TLocal
           THEN /\ local_top_ptr' = [u \in Threads |-> [local_top_ptr[u] EXCEPT ![ty] = a]]
                /\ UNCHANGED global_top_ptr
           ELSE /\ global_top_ptr' = [global_top_ptr EXCEPT ![ty] = a]
                /\ UNCHANGED local_top_ptr

\* The constructor with one slot shared by all payload types.
guard_ctor_untyped(a, ty, TLocal, v) ==
    LET t == owner(a)
        ptr_ref == IF TLocal THEN local_top_ptr[t][ty] ELSE global_top_ptr[ty]
    IN  /\ mem' = [mem EXCEPT ![a] =
                      [T |-> ty, TLocal |-> TLocal, _data |-> v, _prev |-> ptr_ref]]
        /\ IF TLocal
           THEN /\ local_top_ptr' = [local_top_ptr EXCEPT ![t] = [u \in Types |-> a]]
                /\ UNCHANGED global_top_ptr
           ELSE /\ global_top_ptr' = [u \in Types |-> a]
                /\ UNCHANGED local_top_ptr

\* The constructor not saving the slot: _prev is null.
guard_ctor_no_prev(a, ty, TLocal, v) ==
    LET t == owner(a)
    IN  /\ mem' = [mem EXCEPT ![a] =
                      [T |-> ty, TLocal |-> TLocal, _data |-> v, _prev |-> nullptr]]
        /\ IF TLocal
           THEN /\ local_top_ptr' = [local_top_ptr EXCEPT ![t][ty] = a]
                /\ UNCHANGED global_top_ptr
           ELSE /\ global_top_ptr' = [global_top_ptr EXCEPT ![ty] = a]
                /\ UNCHANGED local_top_ptr

\* guard<T, TLocal>::guard after _data is constructed: save the slot in
\* _prev, then point the slot at this guard.
guard_ctor(a, ty, TLocal, v) ==
    LET t == owner(a)
        ptr_ref == IF TLocal THEN local_top_ptr[t][ty] ELSE global_top_ptr[ty]
    IN  /\ mem' = [mem EXCEPT ![a] =
                      [T |-> ty, TLocal |-> TLocal, _data |-> v, _prev |-> ptr_ref]]
        /\ IF TLocal
           THEN /\ local_top_ptr' = [local_top_ptr EXCEPT ![t][ty] = a]
                /\ UNCHANGED global_top_ptr
           ELSE /\ global_top_ptr' = [global_top_ptr EXCEPT ![ty] = a]
                /\ UNCHANGED local_top_ptr

\* The first half of the constructor forgetting the slot: _prev is null.
guard_ctor_read_no_prev(a, ty, TLocal, v) ==
    /\ mem' = [mem EXCEPT ![a] =
                  [T |-> ty, TLocal |-> TLocal, _data |-> v, _prev |-> nullptr]]
    /\ UNCHANGED <<global_top_ptr, local_top_ptr>>

\* The first half of the constructor: _data is constructed and the slot is
\* read into _prev.  The slot is not written yet.
guard_ctor_read(a, ty, TLocal, v) ==
    LET t == owner(a)
        ptr_ref == IF TLocal THEN local_top_ptr[t][ty] ELSE global_top_ptr[ty]
    IN  /\ mem' = [mem EXCEPT ![a] =
                      [T |-> ty, TLocal |-> TLocal, _data |-> v, _prev |-> ptr_ref]]
        /\ UNCHANGED <<global_top_ptr, local_top_ptr>>

\* The second half of a constructor that is atomic: the slot is read again
\* into _prev in the step that points it at the guard.
guard_ctor_write_atomic(a) ==
    LET t == owner(a)
        g == mem[a]
    IN  IF g.TLocal
        THEN /\ mem' = [mem EXCEPT ![a]._prev = local_top_ptr[t][g.T]]
             /\ local_top_ptr' = [local_top_ptr EXCEPT ![t][g.T] = a]
             /\ UNCHANGED global_top_ptr
        ELSE /\ mem' = [mem EXCEPT ![a]._prev = global_top_ptr[g.T]]
             /\ global_top_ptr' = [global_top_ptr EXCEPT ![g.T] = a]
             /\ UNCHANGED local_top_ptr

\* The second half of the constructor: the slot is pointed at the guard,
\* whatever it holds by now.
guard_ctor_write(a) ==
    LET t == owner(a)
        g == mem[a]
    IN  /\ IF g.TLocal
           THEN /\ local_top_ptr' = [local_top_ptr EXCEPT ![t][g.T] = a]
                /\ UNCHANGED global_top_ptr
           ELSE /\ global_top_ptr' = [global_top_ptr EXCEPT ![g.T] = a]
                /\ UNCHANGED local_top_ptr
        /\ UNCHANGED mem

\* The destructor emptying the slot instead of writing _prev back.
guard_dtor_reset(a) ==
    LET t == owner(a)
        g == mem[a]
    IN  /\ IF g.TLocal
           THEN /\ local_top_ptr' = [local_top_ptr EXCEPT ![t][g.T] = nullptr]
                /\ UNCHANGED global_top_ptr
           ELSE /\ global_top_ptr' = [global_top_ptr EXCEPT ![g.T] = nullptr]
                /\ UNCHANGED local_top_ptr
        /\ mem' = [mem EXCEPT ![a] = NoGuard]

\* The destructor without its restoration step: the slot is left as it is.
guard_dtor_no_restore(a) ==
    /\ mem' = [mem EXCEPT ![a] = NoGuard]
    /\ UNCHANGED <<global_top_ptr, local_top_ptr>>

\* The destructor unlinking only the guard the slot refers to: destroying
\* any other guard leaves the slot alone.
guard_dtor_if_top(a) ==
    LET t == owner(a)
        g == mem[a]
    IN  /\ IF g.TLocal
           THEN /\ local_top_ptr' = [local_top_ptr EXCEPT ![t][g.T] =
                                        IF @ = a THEN g._prev ELSE @]
                /\ UNCHANGED global_top_ptr
           ELSE /\ global_top_ptr' = [global_top_ptr EXCEPT ![g.T] =
                                         IF @ = a THEN g._prev ELSE @]
                /\ UNCHANGED local_top_ptr
        /\ mem' = [mem EXCEPT ![a] = NoGuard]

\* The destructor selecting the process-wide slot whatever TLocal is: a
\* local guard's slot is left pointing at it.
guard_dtor_wrong_slot(a) ==
    /\ global_top_ptr' = [global_top_ptr EXCEPT ![mem[a].T] = mem[a]._prev]
    /\ UNCHANGED local_top_ptr
    /\ mem' = [mem EXCEPT ![a] = NoGuard]

\* guard<T, TLocal>::~guard: write _prev back; the object's lifetime ends.
guard_dtor(a) ==
    LET t == owner(a)
        g == mem[a]
    IN  /\ IF g.TLocal
           THEN /\ local_top_ptr' = [local_top_ptr EXCEPT ![t][g.T] = g._prev]
                /\ UNCHANGED global_top_ptr
           ELSE /\ global_top_ptr' = [global_top_ptr EXCEPT ![g.T] = g._prev]
                /\ UNCHANGED local_top_ptr
        /\ mem' = [mem EXCEPT ![a] = NoGuard]

\* The constructor registering the guard before the payload is constructed:
\* the slot already points at it when T's constructor throws.
guard_ctor_throws_registered(a, ty, TLocal) ==
    /\ IF TLocal
       THEN /\ local_top_ptr' = [local_top_ptr EXCEPT ![owner(a)][ty] = a]
            /\ UNCHANGED global_top_ptr
       ELSE /\ global_top_ptr' = [global_top_ptr EXCEPT ![ty] = a]
            /\ UNCHANGED local_top_ptr
    /\ UNCHANGED mem

\* guard<T, TLocal>::guard when T's constructor throws: the body never runs.
guard_ctor_throws(a, ty, TLocal) ==
    UNCHANGED <<global_top_ptr, local_top_ptr, mem>>

----------------------------------------------------------------------------
\* History kept for the properties

NoObs == <<{}, {}, {}>>

NoFrame == [slot |-> nullptr, obs |-> NoObs, clean |-> TRUE]

\* Frames of other threads that a write of the process-wide slot of type ty
\* by thread t happens inside of.
Disturbed(t, ty) == {b \in Addrs : owner(b) # t /\ alive(b) /\ mem[b].T = ty}

Remember(a, ty, TLocal) ==
    LET t == owner(a)
        frame == [slot  |-> IF TLocal THEN local_top_ptr[t][ty] ELSE global_top_ptr[ty],
                  obs   |-> Observe(t, ty),
                  clean |-> TRUE]
    IN  before' = [b \in Addrs |->
                      IF b = a THEN frame
                      ELSE IF ~TLocal /\ b \in Disturbed(t, ty)
                           THEN [before[b] EXCEPT !.obs = NoObs, !.clean = FALSE]
                           ELSE before[b]]

Forget(a) ==
    LET t == owner(a)
        g == mem[a]
    IN  before' = [b \in Addrs |->
                      IF b = a THEN NoFrame
                      ELSE IF ~g.TLocal /\ b \in Disturbed(t, g.T)
                           THEN [before[b] EXCEPT !.obs = NoObs, !.clean = FALSE]
                           ELSE before[b]]

\* A guard is destroyed while guards installed after it are alive: its frame
\* keeps the slot value it was installed over.
ForgetEarly(a) ==
    LET t == owner(a)
        g == mem[a]
    IN  before' = [b \in Addrs |->
                      IF b = a \/ (~g.TLocal /\ b \in Disturbed(t, g.T))
                      THEN [before[b] EXCEPT !.obs = NoObs, !.clean = FALSE]
                      ELSE before[b]]

----------------------------------------------------------------------------
\* Operations of a thread

\* Every global guard of type ty now alive was installed by thread t: the
\* caller serializes the writers of the process-wide slot.
SingleWriter(t, ty) ==
    \A a \in Addrs : alive(a) /\ mem[a].T = ty /\ ~mem[a].TLocal => owner(a) = t

Install(op, t, ty, TLocal, v) ==
    LET a == <<t, Top(t) + 1>>
    IN  /\ Cardinality(Alive) < MaxGuards
        /\ Top(t) < MaxGuards
        /\ guard_ctor(a, ty, TLocal, v)
        /\ Remember(a, ty, TLocal)
        /\ last' = Event(op, t, ty, a, v)
        /\ UNCHANGED <<unwind, halted, ctor>>

\* int_ctx::local_guard lg(v);
local_guard(t, ty, v) ==
    /\ Running(t)
    /\ Install("local_guard", t, ty, TRUE, v)

\* int_ctx::global_guard gg(v);
global_guard(t, ty, v) ==
    /\ Running(t)
    /\ SingleWriter(t, ty)
    /\ Install("global_guard", t, ty, FALSE, v)

\* A guard declaration whose payload constructor throws; the exception is
\* caught in the scope at depth k.
payload_throws(t, ty, TLocal, k) ==
    LET a == <<t, Top(t) + 1>>
    IN  /\ Running(t)
        /\ Cardinality(Alive) < MaxGuards
        /\ k <= Top(t)
        /\ guard_ctor_throws(a, ty, TLocal)
        /\ unwind' = [unwind EXCEPT ![t] =
                         IF k = Top(t) THEN NoUnwind ELSE [to |-> k, why |-> "throw"]]
        /\ last' = Event("ctor_throw", t, "none", a, 0)
        /\ UNCHANGED <<halted, before, ctor>>

\* The innermost guard of thread t goes out of scope; why is "end" (control
\* reaches the closing brace), "return" or "throw".
Destroy(t, why) ==
    LET a == <<t, Top(t)>>
    IN  /\ Top(t) > 0
        /\ guard_dtor(a)
        /\ Forget(a)
        /\ last' = Event(why, t, "none", a, 0)
        /\ UNCHANGED <<halted, ctor>>

\* Control reaches the closing brace of the innermost guard's block.
block_end(t) ==
    /\ Running(t)
    /\ Destroy(t, "end")
    /\ UNCHANGED unwind

\* A return statement (why = "return") or a throw expression (why = "throw")
\* inside the innermost block leaves every block deeper than k: it destroys
\* the innermost guard, and the guards between stay to be destroyed in turn.
leave(t, why, k) ==
    /\ k < Top(t)
    /\ Destroy(t, why)
    /\ unwind' = [unwind EXCEPT ![t] =
                     IF Top(t) - 1 = k THEN NoUnwind ELSE [to |-> k, why |-> why]]

early_return(t, k) ==
    /\ Running(t)
    /\ leave(t, "return", k)

throw_in_block(t, k) ==
    /\ Running(t)
    /\ leave(t, "throw", k)

\* The exit in progress destroys the next guard.
unwind_step(t) ==
    /\ Unwinding(t)
    /\ unwind[t].to < Top(t)
    /\ Destroy(t, unwind[t].why)
    /\ unwind' = [unwind EXCEPT ![t] =
                     IF Top(t) - 1 = unwind[t].to THEN NoUnwind ELSE unwind[t]]

\* int_ctx::global_guard gg(v); with no lock around it, up to the read of
\* global_top_ptr.  The constructor's read and write of the slot are two
\* unsynchronized memory accesses: steps of other threads come between them.
global_guard_read(t, ty, v) ==
    LET a == <<t, Top(t) + 1>>
    IN  /\ Running(t)
        /\ Cardinality(Alive) < MaxGuards
        /\ Top(t) < MaxGuards
        /\ guard_ctor_read(a, ty, FALSE, v)
        /\ Remember(a, ty, FALSE)
        /\ ctor' = [ctor EXCEPT ![t] = a]
        /\ last' = Event("global_guard_read", t, ty, a, v)
        /\ UNCHANGED <<unwind, halted>>

\* The rest of that constructor: the write of global_top_ptr.
global_guard_write(t) ==
    LET a == ctor[t]
    IN  /\ halted = ""
        /\ a # nullptr
        /\ guard_ctor_write(a)
        /\ ctor' = [ctor EXCEPT ![t] = nullptr]
        /\ last' = Event("global_guard", t, mem[a].T, a, mem[a]._data)
        /\ UNCHANGED <<unwind, halted, before>>

\* The guard at depth d of thread t, which is not the thread's innermost, is
\* destroyed: its lifetime is managed by hand (a guard held in dynamic or
\* optional storage) and ended before that of guards installed after it.
destroy_out_of_order(t, d) ==
    LET a == <<t, d>>
    IN  /\ Running(t)
        /\ alive(a)
        /\ d < Top(t)
        /\ guard_dtor(a)
        /\ ForgetEarly(a)
        /\ last' = Event("delete", t, "none", a, 0)
        /\ UNCHANGED <<unwind, halted, ctor>>

----------------------------------------------------------------------------
\* Specification

Init ==
    /\ global_top_ptr = [ty \in Types |-> nullptr]
    /\ local_top_ptr = [t \in Threads |-> [ty \in Types |-> nullptr]]
    /\ mem = [a \in Addrs |-> NoGuard]
    /\ unwind = [t \in Threads |-> NoUnwind]
    /\ halted = ""
    /\ last = Event("init", "main", "none", nullptr, 0)
    /\ before = [a \in Addrs |-> NoFrame]
    /\ ctor = [t \in Threads |-> nullptr]

Next ==
    \/ \E t \in Threads, ty \in Types, v \in Payloads : local_guard(t, ty, v)
    \/ \E t \in Threads, ty \in Types, v \in Payloads : global_guard(t, ty, v)
    \/ \E t \in Threads, ty \in Types, TLocal \in BOOLEAN, k \in 0..MaxGuards :
          payload_throws(t, ty, TLocal, k)
    \/ \E t \in Threads : block_end(t)
    \/ \E t \in Threads, k \in 0..MaxGuards : early_return(t, k)
    \/ \E t \in Threads, k \in 0..MaxGuards : throw_in_block(t, k)
    \/ \E t \in Threads : unwind_step(t)
    \/ \E t \in Threads, ty \in Types : get_local(t, ty)
    \/ \E t \in Threads, ty \in Types : get_global(t, ty)
    \/ \E t \in Threads, ty \in Types : get_top(t, ty)

Spec == Init /\ [][Next]_vars

\* The payload type whose process-wide slot the threads of SpecRace share.
RaceType == "int_ctx_data"

\* Two threads install and remove global guards of one type, each in
\* well-nested scopes of its own, and nothing serializes them.
NextRace ==
    \/ \E t \in Threads, v \in Payloads : global_guard_read(t, RaceType, v)
    \/ \E t \in Threads : global_guard_write(t)
    \/ \E t \in Threads : block_end(t)
    \/ \E t \in Threads : get_global(t, RaceType)
    \/ \E t \in Threads : get_top(t, RaceType)

SpecRace == Init /\ [][NextRace]_vars

\* The thread that manages guard lifetimes by hand in SpecMisuse.
MisuseThread == "main"

\* The payload type of the guards of SpecMisuse.
MisuseType == "pmr_context_data"

\* One thread installs guards of one type and destroys them in any order.
NextMisuse ==
    \/ \E v \in Payloads : local_guard(MisuseThread, MisuseType, v)
    \/ \E v \in Payloads : global_guard(MisuseThread, MisuseType, v)
    \/ \E d \in Depths : destroy_out_of_order(MisuseThread, d)
    \/ block_end(MisuseThread)
    \/ get_local(MisuseThread, MisuseType)
    \/ get_global(MisuseThread, MisuseType)
    \/ get_top(MisuseThread, MisuseType)

SpecMisuse == Init /\ [][NextMisuse]_vars

----------------------------------------------------------------------------
\* Properties

Installs == {"local_guard", "global_guard"}

Exits == {"end", "return", "throw"}

Accessors == {"get_local", "get_global", "get_top"}

\* C1: a get_top() call on thread t returns the payload at the top of t's
\* thread-local slot whenever that slot is not empty, whatever the
\* process-wide slot holds; with the local slot empty and the process-wide
\* slot not empty it returns the payload at the top of the process-wide slot.
C1_ResolutionOrder ==
    last.op = "get_top" =>
        LET local_ptr == local_top_ptr[last.t][last.T]
            global_ptr == global_top_ptr[last.T]
        IN  /\ local_ptr # nullptr =>
                /\ halted = ""
                /\ last.ref = local_ptr
                /\ last.res = mem[local_ptr]._data
            /\ local_ptr = nullptr /\ global_ptr # nullptr =>
                /\ halted = ""
                /\ last.ref = global_ptr
                /\ last.res = mem[global_ptr]._data

\* get_top() returned the local payload although a global guard with another
\* payload was installed after the local guard, inside its scope.
C1_Witness ==
    /\ last.op = "get_top"
    /\ halted = ""
    /\ LET local_ptr == local_top_ptr[last.t][last.T]
           global_ptr == global_top_ptr[last.T]
       IN  /\ local_ptr # nullptr
           /\ global_ptr # nullptr
           /\ owner(global_ptr) = last.t
           /\ global_ptr[2] > local_ptr[2]
           /\ mem[global_ptr]._data # mem[local_ptr]._data
           /\ last.res = mem[local_ptr]._data

\* C2 as stated: right after any guard is installed, get_top() on the
\* installing thread gives that guard's payload.
C2_TopIsInstalledGuard ==
    last.op \in Installs =>
        get_top_result(last.t, last.T) = {Returned(last.ref, last.res)}

\* C2, amended: right after a local guard is installed, get_top() on the
\* installing thread gives that guard's payload; right after a global guard
\* is installed it gives that guard's payload if the thread has no local
\* guard of the type, and the payload of the thread's innermost local guard
\* of the type otherwise.
C2_TopAfterInstall ==
    last.op \in Installs =>
        LET local_ptr == local_top_ptr[last.t][last.T]
            got == get_top_result(last.t, last.T)
        IN  /\ last.op = "local_guard" => got = {Returned(last.ref, last.res)}
            /\ last.op = "global_guard" /\ local_ptr = nullptr =>
                   got = {Returned(last.ref, last.res)}
            /\ last.op = "global_guard" /\ local_ptr # nullptr =>
                   /\ local_ptr # last.ref
                   /\ mem[local_ptr].TLocal
                   /\ got = {Returned(local_ptr, mem[local_ptr]._data)}

\* A global guard was just installed inside the scope of a local guard of the
\* same type that holds another payload.
C2_Witness ==
    /\ last.op = "global_guard"
    /\ local_top_ptr[last.t][last.T] # nullptr
    /\ mem[local_top_ptr[last.t][last.T]]._data # last.res
    /\ global_top_ptr[last.T] = last.ref

\* The slot the guard at address a acts on.
SlotOf(a) ==
    IF mem[a].TLocal THEN local_top_ptr[owner(a)][mem[a].T] ELSE global_top_ptr[mem[a].T]

\* C3: when a guard is destroyed, the slot it acted on holds again the
\* pointer it held just before the guard was installed, and, no other thread
\* having written the process-wide slot of the type meanwhile, get_local(),
\* get_global() and get_top() on the thread give what they gave just before
\* the install (the same payload of the same guard, or the same abort).
C3_Restoration ==
    [][\A a \in Addrs, ty \in Types :
          last'.op \in Exits /\ last'.ref = a /\ mem[a].T = ty =>
              /\ ~alive(a)'
              /\ (IF mem[a].TLocal THEN local_top_ptr'[owner(a)][ty]
                                   ELSE global_top_ptr'[ty]) = before[a].slot
              /\ before[a].clean => Observe(owner(a), ty)' = before[a].obs]_vars

\* A guard nested in another guard of the same type and kind was just
\* destroyed, and the outer guard is the top of the slot again.
C3_Witness ==
    /\ last.op \in Exits
    /\ last.ref[2] = 2
    /\ LET outer == <<last.t, 1>>
       IN  /\ alive(outer)
           /\ SlotOf(outer) = outer
           /\ before[outer].clean

\* The step installs (kind TRUE: local, FALSE: global) or destroys a guard of
\* that kind.
ActsOn(kind) ==
    \/ last'.op = (IF kind THEN "local_guard" ELSE "global_guard")
    \/ last'.op \in Exits /\ mem[last'.ref].TLocal = kind

\* C4: installing or destroying a local guard leaves the process-wide slots,
\* every global guard and what get_global() gives on every thread unchanged;
\* installing or destroying a global guard leaves every thread's local
\* slots, every local guard and what get_local() gives unchanged.
C4_SlotsIndependent ==
    [][/\ ActsOn(TRUE) =>
           /\ global_top_ptr' = global_top_ptr
           /\ \A b \in Addrs : alive(b) /\ ~mem[b].TLocal => mem'[b] = mem[b]
           /\ \A t \in Threads, ty \in Types :
                  get_global_result(t, ty)' = get_global_result(t, ty)
       /\ ActsOn(FALSE) =>
           /\ local_top_ptr' = local_top_ptr
           /\ \A b \in Addrs : alive(b) /\ mem[b].TLocal => mem'[b] = mem[b]
           /\ \A t \in Threads, ty \in Types :
                  get_local_result(t, ty)' = get_local_result(t, ty)]_vars

\* A local guard was just installed while a global guard of the same type,
\* holding another payload, is the top of the process-wide slot.
C4_Witness ==
    /\ last.op = "local_guard"
    /\ global_top_ptr[last.T] # nullptr
    /\ mem[global_top_ptr[last.T]]._data # last.res
    /\ local_top_ptr[last.t][last.T] = last.ref

\* The innermost local guard of type ty alive on thread t, from the guards of
\* t alone (nullptr: none).
LocalTopOf(t, ty) ==
    LET ds == {d \in Depths : /\ alive(<<t, d>>)
                              /\ mem[<<t, d>>].T = ty
                              /\ mem[<<t, d>>].TLocal}
    IN  IF ds = {} THEN nullptr
        ELSE <<t, CHOOSE d \in ds : \A e \in ds : e <= d>>

\* C5: a step of thread A changes neither the local slots of another thread
\* B, nor what get_local() gives on B, nor what get_top() gives on B while B
\* has a local guard; and after every step each thread's local slot points
\* at the innermost local guard of that thread itself, so what B reads
\* through it is what B's own guards alone determine.
C5_ThreadIsolation ==
    [][\A A \in Threads, B \in Threads, ty \in Types :
          /\ A # B /\ last'.t = A =>
                /\ local_top_ptr'[B] = local_top_ptr[B]
                /\ get_local_result(B, ty)' = get_local_result(B, ty)
                /\ local_top_ptr[B][ty] # nullptr =>
                       get_top_result(B, ty)' = get_top_result(B, ty)
          /\ local_top_ptr'[B][ty] = LocalTopOf(B, ty)'
          /\ last'.op = "get_local" /\ last'.t = B /\ last'.T = ty /\ halted' = "" =>
                /\ last'.ref = LocalTopOf(B, ty)
                /\ last'.res = mem[LocalTopOf(B, ty)]._data]_vars

\* Both threads hold a local guard of one type, with different payloads, and
\* a thread has just read its own through get_local().
C5_Witness ==
    /\ last.op = "get_local"
    /\ halted = ""
    /\ owner(last.ref) = last.t
    /\ \E u \in Threads \ {last.t} :
          /\ local_top_ptr[u][last.T] # nullptr
          /\ mem[local_top_ptr[u][last.T]]._data # last.res

\* C6: while a live global guard is the top of the process-wide slot of a
\* type, a get_global() call for the type on any thread returns that guard's
\* payload, and a get_top() call on a thread returns it exactly when the
\* thread has no local guard of the type.
C6_GlobalVisibleToAll ==
    \A ty \in Types :
        LET g == global_top_ptr[ty]
        IN  g # nullptr /\ alive(g) /\ ~mem[g].TLocal /\ mem[g].T = ty =>
               /\ last.op = "get_global" /\ last.T = ty =>
                      /\ halted = ""
                      /\ last.ref = g
                      /\ last.res = mem[g]._data
               /\ last.op = "get_top" /\ last.T = ty =>
                      /\ halted = ""
                      /\ (last.ref = g /\ last.res = mem[g]._data)
                             <=> local_top_ptr[last.t][ty] = nullptr

\* A thread that holds a local guard of the type has just read, through
\* get_global(), the global guard another thread installed.
C6_Witness ==
    /\ last.op = "get_global"
    /\ halted = ""
    /\ owner(last.ref) # last.t
    /\ local_top_ptr[last.t][last.T] # nullptr
    /\ mem[local_top_ptr[last.t][last.T]]._data # last.res

\* C7: an accessor call stops the process exactly when the context it reads
\* is absent: get_local() iff the caller's local slot is empty, get_global()
\* iff the process-wide slot is empty, get_top() iff both are empty; each
\* stops with its own diagnostic, and nothing else stops the process.
C7_MisuseDetected ==
    LET local_empty == local_top_ptr[last.t][last.T] = nullptr
        global_empty == global_top_ptr[last.T] = nullptr
    IN  /\ halted # "" => last.op \in Accessors
        /\ last.op = "get_local" =>
               /\ halted \in {"", "tried using inactive local context"}
               /\ halted # "" <=> local_empty
        /\ last.op = "get_global" =>
               /\ halted \in {"", "tried using inactive global context"}
               /\ halted # "" <=> global_empty
        /\ last.op = "get_top" =>
               /\ halted \in {"", "no available context"}
               /\ halted # "" <=> local_empty /\ global_empty

\* get_local() stopped the process although a global guard of the type is
\* active.
C7_Witness ==
    /\ last.op = "get_local"
    /\ halted = "tried using inactive local context"
    /\ global_top_ptr[last.T] # nullptr
    /\ alive(global_top_ptr[last.T])

\* The step installs or destroys a guard of payload type ty.
ActsOnType(ty) ==
    \/ last'.op \in Installs /\ last'.T = ty
    \/ last'.op \in Exits /\ mem[last'.ref].T = ty

\* C8: installing or destroying a guard of one payload type, local or
\* global, leaves both slots of every other payload type unchanged, and with
\* them what the three accessors give for that type on every thread.
C8_TypesIndependent ==
    [][\A ty \in Types, U \in Types, t \in Threads :
          ActsOnType(ty) /\ U # ty =>
              /\ global_top_ptr'[U] = global_top_ptr[U]
              /\ local_top_ptr'[t][U] = local_top_ptr[t][U]
              /\ Observe(t, U)' = Observe(t, U)]_vars

\* A thread that holds a global guard of one type has just installed a local
\* guard of another type: guards of both types are active.
C8_Witness ==
    /\ last.op = "local_guard"
    /\ \E U \in Types \ {last.T} :
          /\ global_top_ptr[U] # nullptr
          /\ owner(global_top_ptr[U]) = last.t
          /\ alive(global_top_ptr[U])
    /\ alive(last.ref)

\* C9: a guard construction whose payload constructor fails leaves every
\* slot and every guard as they were, so that every accessor gives what it
\* gave before and no slot points at the failed guard; and a destructor only
\* ever runs for a guard that was installed.
C9_FailedConstructionAtomic ==
    [][/\ last'.op = "ctor_throw" =>
           /\ global_top_ptr' = global_top_ptr
           /\ local_top_ptr' = local_top_ptr
           /\ mem' = mem
           /\ before' = before
           /\ ~alive(last'.ref)
           /\ \A t \in Threads, ty \in Types :
                  /\ Observe(t, ty)' = Observe(t, ty)
                  /\ global_top_ptr'[ty] # last'.ref
                  /\ local_top_ptr'[t][ty] # last'.ref
       /\ last'.op \in Exits =>
           /\ alive(last'.ref)
           /\ before[last'.ref] # NoFrame]_vars

\* A payload constructor has just thrown inside the scope of a live guard,
\* and the exception is leaving that scope.
C9_Witness ==
    /\ last.op = "ctor_throw"
    /\ Top(last.t) >= 1
    /\ unwind[last.t] # NoUnwind
    /\ SlotOf(<<last.t, 1>>) = <<last.t, 1>>

\* C10: however a guard's block is left (closing brace, return, exception),
\* the destructor runs once for the innermost guard of the thread and for no
\* other, and restores the slot and, no other thread having written the
\* process-wide slot of the type meanwhile, what every accessor gives to
\* what it was when the block was entered; a thread leaving several blocks
\* does nothing else until the guard of each has been destroyed.
C10_ReleaseOnEveryExit ==
    [][\A t \in Threads :
          /\ last'.op \in Exits /\ last'.t = t =>
                LET a == <<t, Top(t)>>
                IN  /\ last'.ref = a
                    /\ alive(a)
                    /\ {b \in Addrs : mem'[b] # NoGuard} = Alive \ {a}
                    /\ (IF mem[a].TLocal THEN local_top_ptr'[t][mem[a].T]
                                         ELSE global_top_ptr'[mem[a].T]) = before[a].slot
                    /\ before[a].clean =>
                           \A ty \in Types : mem[a].T = ty =>
                               Observe(t, ty)' = before[a].obs
          /\ unwind[t] # NoUnwind /\ last'.t = t =>
                /\ last'.op = unwind[t].why
                /\ unwind'[t] \in {unwind[t], NoUnwind}
          /\ unwind'[t] # NoUnwind => unwind'[t].to < Top(t)'
          /\ unwind'[t] # NoUnwind => unwind'[t].why \in {"return", "throw"}]_vars

\* An exception leaving two nested blocks has destroyed the guard of the
\* inner one, whose slot points at the outer guard again, and is about to
\* destroy the outer one.
C10_Witness ==
    /\ last.op = "throw"
    /\ unwind[last.t] = [to |-> 0, why |-> "throw"]
    /\ last.ref = <<last.t, 2>>
    /\ Top(last.t) = 1
    /\ SlotOf(<<last.t, 1>>) = <<last.t, 1>>

\* The addresses met from ptr along the _prev links, nearest first.  The walk
\* ends at nullptr; it also ends, with that address last, at an address where
\* no guard lives, and after n addresses.
RECURSIVE ChainFrom(_, _)
ChainFrom(ptr, n) ==
    IF ptr = nullptr \/ n = 0 THEN <<>>
    ELSE IF ~alive(ptr) THEN <<ptr>>
    ELSE <<ptr>> \o ChainFrom(mem[ptr]._prev, n - 1)

Chain(ptr) == ChainFrom(ptr, Cardinality(Addrs) + 1)

\* The global guards of type ty whose constructor has completed.
GlobalInstalled(ty) ==
    {a \in Addrs : /\ alive(a)
                   /\ mem[a].T = ty
                   /\ ~mem[a].TLocal
                   /\ \A t \in Threads : ctor[t] # a}

\* The process-wide slot of type ty heads a stack of exactly the installed
\* global guards of the type, a thread's inner guards before its outer ones,
\* and a constructor that is under way is the only one and has saved the
\* slot as it is now.
GlobalStackOK(ty) ==
    LET chain == Chain(global_top_ptr[ty])
    IN  /\ {chain[i] : i \in DOMAIN chain} = GlobalInstalled(ty)
        /\ Len(chain) = Cardinality(GlobalInstalled(ty))
        /\ \A i, j \in DOMAIN chain :
               i < j /\ owner(chain[i]) = owner(chain[j]) => chain[i][2] > chain[j][2]
        /\ \A t \in Threads :
               ctor[t] # nullptr /\ mem[ctor[t]].T = ty =>
                   /\ mem[ctor[t]]._prev = global_top_ptr[ty]
                   /\ \A u \in Threads \ {t} : ctor[u] = nullptr

\* The process-wide slot of type ty does not refer to an installed global
\* guard although it is not empty, or is empty although there is one.
SlotStale(ty) ==
    \/ global_top_ptr[ty] # nullptr /\ global_top_ptr[ty] \notin GlobalInstalled(ty)
    \/ global_top_ptr[ty] = nullptr /\ GlobalInstalled(ty) # {}

\* The step to the next state is one the caller's lock allows: a constructor
\* starts and a guard is destroyed only while no constructor is under way,
\* and the global guard destroyed is the one the slot refers to.
SerializedStep(ty) ==
    /\ last'.op \in {"global_guard_read", "end"} => \A u \in Threads : ctor[u] = nullptr
    /\ last'.op = "end" => last'.ref = global_top_ptr[ty]

\* C11: with two threads installing and removing global guards of one type
\* in scopes well-nested within each thread, as long as the installs and
\* removals are serialized so that the scopes are well-nested across the
\* threads, the process-wide slot heads the stack of the alive global guards:
\* it never refers to a destroyed guard and is never empty while a global
\* guard is alive, and get_global() gives the payload of the innermost one.
\* (Without the serialization such a state is reached: C11_Witness.)
C11_SerializedGlobalsStayConsistent ==
    /\ GlobalStackOK(RaceType)
    /\ [][\A t \in Threads :
              GlobalStackOK(RaceType) /\ SerializedStep(RaceType) =>
                  /\ GlobalStackOK(RaceType)'
                  /\ ~SlotStale(RaceType)'
                  /\ global_top_ptr'[RaceType] # nullptr =>
                         get_global_result(t, RaceType)' =
                             {Returned(global_top_ptr'[RaceType],
                                       mem'[global_top_ptr'[RaceType]]._data)}]_vars

\* Unserialized, get_global() has just aborted on an empty process-wide slot
\* although a global guard of the type is installed and alive.
C11_Witness ==
    /\ last.op = "get_global"
    /\ halted = "tried using inactive global context"
    /\ global_top_ptr[RaceType] = nullptr
    /\ GlobalInstalled(RaceType) # {}

\* The set of addresses on the chain from ptr.
Reach(ptr) == LET chain == Chain(ptr) IN {chain[i] : i \in DOMAIN chain}

\* C16: installing a global guard reads the process-wide slot and writes it
\* in two steps.  When guard a's write comes after the write of a guard b
\* that recorded the same previous top, the slot refers to a, a's previous
\* top is still the common one, and b, alive, is not reachable from the slot
\* (a lost push).  When of two alive guards with a common previous top the
\* one the slot does not refer to is destroyed, the slot is reset to the
\* common previous top although the other guard is still alive.
C16_LostPush ==
    [][\A a, b \in Addrs :
          LET prev == mem[b]._prev
              common == /\ a # b
                        /\ b \in GlobalInstalled(RaceType)
                        /\ alive(a)
                        /\ mem[a]._prev = prev
                        /\ prev \notin {a, b}
                        /\ Reach(prev) \cap {a, b} = {}
                        /\ global_top_ptr[RaceType] = b
                        /\ last'.ref = a
          IN  /\ common /\ last'.op = "global_guard" =>
                     /\ global_top_ptr'[RaceType] = a
                     /\ mem'[a]._prev = prev
                     /\ mem'[b] = mem[b]
                     /\ b \notin Reach(global_top_ptr[RaceType])'
                     /\ {a, b} \subseteq GlobalInstalled(RaceType)'
              /\ common /\ last'.op = "end" =>
                     /\ global_top_ptr'[RaceType] = prev
                     /\ mem'[b] = mem[b]
                     /\ b \in GlobalInstalled(RaceType)'
                     /\ b \notin Reach(global_top_ptr[RaceType])']_vars

\* Both threads read the empty process-wide slot before either wrote it, and
\* the second write has just happened: two global guards are installed and
\* alive, both with an empty previous top, and the slot refers to the one
\* written last.
C16_Witness ==
    \E a, b \in GlobalInstalled(RaceType) :
        /\ owner(a) # owner(b)
        /\ mem[a]._prev = nullptr
        /\ mem[b]._prev = nullptr
        /\ last.op = "global_guard"
        /\ last.ref = a
        /\ global_top_ptr[RaceType] = a

\* The slot of payload type ty in the given scope, as thread t sees it.
SlotPtr(t, ty, TLocal) == IF TLocal THEN local_top_ptr[t][ty] ELSE global_top_ptr[ty]

\* The chain from ptr is a stack of distinct alive guards ending at nullptr.
StackOK(ptr) ==
    LET chain == Chain(ptr)
    IN  /\ \A i \in DOMAIN chain : alive(chain[i])
        /\ Cardinality(Reach(ptr)) = Len(chain)

\* C12: destroying guards of one (type, scope) slot out of LIFO order raises
\* no error and corrupts the slot.  When G1 is destroyed while G2, installed
\* after it on a well-formed stack, is alive, the slot becomes G1's previous
\* top and the still-alive G2 is no longer reachable from it.  When G2, whose
\* previous top is the destroyed G1, is destroyed in turn, the slot refers
\* to G1's dead storage, not to what it held before G1 was installed.
C12_OutOfOrderCorruptsSilently ==
    [][\A ty \in Types, TLocal \in BOOLEAN, G1 \in Addrs, G2 \in Addrs :
          LET t == owner(G2)
              slot == SlotPtr(t, ty, TLocal)
              on(a) == /\ alive(a)
                       /\ mem[a].T = ty
                       /\ mem[a].TLocal = TLocal
                       /\ TLocal => owner(a) = t
          IN  /\ /\ last'.op = "delete"
                 /\ last'.ref = G1
                 /\ on(G1)
                 /\ on(G2)
                 /\ StackOK(slot)
                 /\ G2 \in Reach(slot)
                 /\ G1 \in Reach(mem[G2]._prev)
                 => /\ halted' = ""
                    /\ SlotPtr(t, ty, TLocal)' = mem[G1]._prev
                    /\ SlotPtr(t, ty, TLocal)' # G2
                    /\ mem'[G2] = mem[G2]
                    /\ G2 \notin Reach(SlotPtr(t, ty, TLocal))'
              /\ /\ last'.op \in Exits \cup {"delete"}
                 /\ last'.ref = G2
                 /\ on(G2)
                 /\ mem[G2]._prev = G1
                 /\ ~alive(G1)
                 /\ before[G1] # NoFrame
                 /\ before[G1].slot # G1
                 => /\ halted' = ""
                    /\ SlotPtr(t, ty, TLocal)' = G1
                    /\ ~alive(G1)'
                    /\ SlotPtr(t, ty, TLocal)' # before[G1].slot]_vars

\* Two local guards were installed over an empty slot, the outer one was
\* destroyed first, and the inner one has just been destroyed: no guard is
\* alive, nothing aborted, and the local slot refers to the outer guard's
\* dead storage.
C12_Witness ==
    /\ last.op = "end"
    /\ last.ref = <<MisuseThread, 2>>
    /\ halted = ""
    /\ Alive = {}
    /\ before[<<MisuseThread, 1>>] # NoFrame
    /\ before[<<MisuseThread, 1>>].slot = nullptr
    /\ local_top_ptr[MisuseThread][MisuseType] = <<MisuseThread, 1>>

\* The alive guards of the (type, scope) slot that SlotPtr(t, ty, TLocal) is.
GuardsOn(t, ty, TLocal) ==
    {a \in Addrs : /\ alive(a)
                   /\ mem[a].T = ty
                   /\ mem[a].TLocal = TLocal
                   /\ TLocal => owner(a) = t}

\* C13: with guards destroyed in LIFO order and one writer per slot, in
\* every reachable state the chain of previous-top links from each slot
\* visits exactly the alive guards of its (type, scope), each once, the most
\* recently installed first and every guard before those installed earlier,
\* and ends at empty; so the slot is empty exactly when no guard of the
\* (type, scope) is alive.
C13_StackShape ==
    \A t \in Threads, ty \in Types, TLocal \in BOOLEAN :
        LET slot == SlotPtr(t, ty, TLocal)
            chain == Chain(slot)
            S == GuardsOn(t, ty, TLocal)
        IN  /\ Reach(slot) = S
            /\ Len(chain) = Cardinality(S)
            /\ \A i, j \in DOMAIN chain :
                   i < j => /\ owner(chain[i]) = owner(chain[j])
                            /\ chain[i][2] > chain[j][2]
            /\ chain # <<>> => mem[chain[Len(chain)]]._prev = nullptr
            /\ slot = nullptr <=> S = {}
            /\ slot # nullptr => /\ slot \in S
                                 /\ \A a \in S : a[2] <= slot[2]

\* A thread holds two nested local guards of one type: the local slot's
\* chain is the inner guard, then the outer one.
C13_Witness ==
    /\ last.op = "local_guard"
    /\ Chain(local_top_ptr["worker"]["int_ctx_data"]) = << <<"worker", 2>>, <<"worker", 1>> >>

\* C14: a call of get_local(), get_global() or get_top() that returns leaves
\* the process-wide slot of every type, the local slot of every type on
\* every thread, and every guard (its payload and its saved previous top)
\* unchanged; a get_top() that found the local slot empty and returned the
\* global guard's payload leaves the local slot empty.
C14_AccessorsReadOnly ==
    [][last'.op \in Accessors /\ halted' = "" =>
          /\ global_top_ptr' = global_top_ptr
          /\ local_top_ptr' = local_top_ptr
          /\ mem' = mem
          /\ \A a \in Addrs : mem'[a]._prev = mem[a]._prev
          /\ \A t \in Threads, ty \in Types :
                 /\ last'.op = "get_top"
                 /\ last'.t = t
                 /\ last'.T = ty
                 /\ local_top_ptr[t][ty] = nullptr
                 => /\ last'.ref = global_top_ptr[ty]
                    /\ local_top_ptr'[t][ty] = nullptr]_vars

\* get_top() has just returned the payload of a global guard on a thread
\* whose local slot of the type is empty, other guards being alive, and the
\* local slot is still empty.
C14_Witness ==
    /\ last.op = "get_top"
    /\ halted = ""
    /\ local_top_ptr[last.t][last.T] = nullptr
    /\ global_top_ptr[last.T] # nullptr
    /\ last.ref = global_top_ptr[last.T]
    /\ last.res = mem[last.ref]._data
    /\ Cardinality(Alive) = 2

\* C15: with threads that use guards in well-nested scopes, under every
\* interleaving of their steps a thread-local slot is empty or refers to an
\* alive local guard of its own thread and type, so get_local() never reads
\* through a dangling pointer; and the local slots of a thread that holds
\* no local guard of a type, in particular of a thread that has left all of
\* its guard scopes, are empty.
C15_NoDanglingLocal ==
    \A t \in Threads, ty \in Types :
        LET ptr == local_top_ptr[t][ty]
        IN  /\ ptr # nullptr =>
                /\ alive(ptr)
                /\ owner(ptr) = t
                /\ mem[ptr].T = ty
                /\ mem[ptr].TLocal
            /\ Aborted("crash") \notin get_local_result(t, ty)
            /\ LocalTopOf(t, ty) = nullptr => ptr = nullptr
            /\ Top(t) = 0 => ptr = nullptr

\* One thread has just left its only guard scope, a local one, while the
\* other thread is inside a local guard scope of the same type: the first
\* thread's local slot is empty and the second's refers to its live guard.
C15_Witness ==
    /\ last.op = "end"
    /\ last.t = "main"
    /\ Top("main") = 0
    /\ before[<<"worker", 1>>].slot = nullptr
    /\ alive(<<"worker", 1>>)
    /\ local_top_ptr["worker"]["int_ctx_data"] = <<"worker", 1>>
    /\ local_top_ptr["main"]["int_ctx_data"] = nullptr
    /\ global_top_ptr["int_ctx_data"] = nullptr

====
